---- MODULE Spec2Model ----
(***************************************************************************)
(* Cross-document cause/effect extraction: the rule-based detector         *)
(* (src/src/extract_rulebased.py, class CauseEffectDetector) and the       *)
(* hybrid detector (src/src/extract_ml.py, class HybridCauseEffect).       *)
(*                                                                         *)
(* Texts are TLA+ strings.  Regular expressions are sequences of items     *)
(* matched by a small position-set matcher.  Scores are integers in        *)
(* hundredths (0.85 is 85); the oracle's probabilities and the hybrid's    *)
(* rounded scores are integers in ten-thousandths; IDF weights and         *)
(* similarities are fixed-point integers in thousandths.                   *)
(***************************************************************************)
EXTENDS Integers, Sequences, FiniteSets, TLC

VARIABLES
    variant,      \* which program runs: "rulebased" or "ml"
    min_conf,     \* self.min_conf, in hundredths
    all_files,    \* the document list handed to find_relationships / find_pairs
    idf,          \* self.idf: word -> weight (thousandths)
    pc,           \* the position of the program
    results,      \* the local list `results`
    scored,       \* number of entries of `results` the ML loop has finished
    rejections,   \* the local tally `rejections` of find_relationships
    oracle_log,   \* the texts each call of self.nli was made for, in call order
    outfile,      \* what run() has written: <<>> while nothing is written
    calls,        \* the direct calls of validate / rule_score, with their answers
    causes,       \* the local list `causes` of find_relationships
    effects,      \* the local list `effects` of find_relationships
    cands,        \* the entries the indexing pass made (`candidates` in find_pairs)
    seen,         \* the local set `seen`
    vocabulary,   \* the words of the sentences the last build_idf call was given
    returned,     \* what each call of find_relationships returned, in call order
    text_calls    \* the direct calls of the text functions, with their answers

vars == <<variant, min_conf, all_files, idf, pc, results, scored, rejections,
          oracle_log, outfile, calls, causes, effects, cands, seen, vocabulary, returned,
          text_calls>>

\* the locals of the indexing and matching passes
passes == <<causes, effects, cands, seen>>

----------------------------------------------------------------------------
(* Characters *)

Min(a, b) == IF a < b THEN a ELSE b
Max(a, b) == IF a > b THEN a ELSE b

UpperCase == "ABCDEFGHIJKLMNOPQRSTUVWXYZ"
LowerCase == "abcdefghijklmnopqrstuvwxyz"
DigitChars == "0123456789"

At(s, i) == SubSeq(s, i, i)
CharsOf(s) == {At(s, i) : i \in 1..Len(s)}

IsUpper(c) == c \in CharsOf(UpperCase)
IsLower(c) == c \in CharsOf(LowerCase)
IsDigit(c) == c \in CharsOf(DigitChars)
\* \w of the re module, on the characters that occur in the texts
IsWordChar(c) == IsUpper(c) \/ IsLower(c) \/ IsDigit(c) \/ c = "_"
\* \s of the re module
IsSpace(c) == c \in {" ", "\t", "\n", "\r", "\f"}

LowerChar(c) ==
    IF IsUpper(c)
    THEN At(LowerCase, CHOOSE k \in 1..Len(UpperCase) : At(UpperCase, k) = c)
    ELSE c

RECURSIVE lower(_)
lower(s) == IF s = "" THEN "" ELSE LowerChar(At(s, 1)) \o lower(SubSeq(s, 2, Len(s)))

\* the text t continues with x at position i
MatchAt(t, i, x) == i + Len(x) - 1 <= Len(t) /\ SubSeq(t, i, i + Len(x) - 1) = x

\* `needle in haystack` on strings
Contains(haystack, needle) == \E i \in 1..(Len(haystack) + 1) : MatchAt(haystack, i, needle)

----------------------------------------------------------------------------
(* Regular expressions (module re).  A pattern is a sequence of items:     *)
(*   [k |-> "b"]                       \b                                   *)
(*   [k |-> "alt", alts |-> S]         (s1|s2|...) of literal strings       *)
(*   [k |-> "sp", lo |-> n]            \s+ (lo = 1) or \s* (lo = 0)         *)
(*   [k |-> "any", lo |-> m, hi |-> n] .{m,n}                               *)
(*   [k |-> "cls", cls |-> c, lo |-> m, hi |-> n]                           *)
(*                                     [A-Z], [a-z] or \d repeated m..n     *)
(*                                     times (hi = -1: no upper limit)      *)
(*   [k |-> "opt", sub |-> P]          (P)?                                 *)
(* EndsFrom gives every position at which a match that starts at i can     *)
(* end; a search succeeds when some start has an end.                      *)

B == [k |-> "b"]
Alt(S) == [k |-> "alt", alts |-> S]
Sp(n) == [k |-> "sp", lo |-> n]
Dot(m, n) == [k |-> "any", lo |-> m, hi |-> n]
Cls(c, m, n) == [k |-> "cls", cls |-> c, lo |-> m, hi |-> n]
Opt(P) == [k |-> "opt", sub |-> P]

IsWordAt(t, i) == i >= 1 /\ i <= Len(t) /\ IsWordChar(At(t, i))
WordBoundary(t, i) == IsWordAt(t, i - 1) # IsWordAt(t, i)

InClass(c, ch) ==
    CASE c = "upper" -> IsUpper(ch)
      [] c = "lower" -> IsLower(ch)
      [] c = "digit" -> IsDigit(ch)
      [] c = "space" -> IsSpace(ch)
      [] c = "dot" -> ch # "\n"

\* ends of a run of lo..hi characters of class c that starts at i
RunEnds(t, i, c, lo, hi) ==
    LET last == IF hi < 0 THEN Len(t) + 1 ELSE Min(i + hi, Len(t) + 1)
    IN  {j \in (i + lo)..last : \A n \in i..(j - 1) : InClass(c, At(t, n))}

RECURSIVE EndsFrom(_, _, _, _)
Step(it, t, i) ==
    CASE it.k = "b" -> IF WordBoundary(t, i) THEN {i} ELSE {}
      [] it.k = "alt" ->
            {i + Len(a) : a \in {x \in it.alts : MatchAt(t, i, x)}}
      [] it.k = "sp" -> RunEnds(t, i, "space", it.lo, -1)
      [] it.k = "any" -> RunEnds(t, i, "dot", it.lo, it.hi)
      [] it.k = "cls" -> RunEnds(t, i, it.cls, it.lo, it.hi)
      [] it.k = "opt" -> {i} \cup EndsFrom(it.sub, 1, t, i)

EndsFrom(re, n, t, i) ==
    IF n > Len(re) THEN {i}
    ELSE UNION {EndsFrom(re, n + 1, t, j) : j \in Step(re[n], t, i)}

\* re.search(p, t) finds a match
re_search(p, t) == \E i \in 1..(Len(t) + 1) : EndsFrom(p, 1, t, i) # {}

\* re.findall(p, t) for a pattern whose single group is the whole match
re_findall(p, t) ==
    UNION {{SubSeq(t, i, j - 1) : j \in EndsFrom(p, 1, t, i)} : i \in 1..(Len(t) + 1)}

----------------------------------------------------------------------------
(* CauseEffectDetector.__init__: the vocabularies *)

causal_phrases ==
    [forward |-> <<
        <<B, Alt({"caused", "led to", "resulted in", "triggered", "sparked",
                  "brought about"}), B>>,
        <<B, Alt({"consequently", "therefore", "thus", "hence", "as a result"}), B>>,
        <<B, Alt({"in response to", "following", "after the", "due to the"}), B>>,
        <<B, Alt({"when"}), Sp(1), Dot(10, 60), Sp(0), Alt({","}), Sp(0), Dot(10, 60),
          Alt({"then", "we", "they", "he", "she", "it"}), B>>,
        <<B, Alt({"because"}), Sp(1), Opt(<<Alt({"of"}), Sp(1)>>),
          Alt({"the", "this", "their", "our", "his", "her"}), B>> >>,
     reverse |-> <<
        <<B, Alt({"because", "due to", "owing to", "on account of"}), B>>,
        <<B, Alt({"as a result of", "in consequence of"}), B>>,
        <<B, Alt({"was caused by", "resulted from"}), B>> >>]

\* the insertion order of the dict, which `for d, pats in ....items()` follows
directions == <<"forward", "reverse">>

important_events ==
    {"somme", "verdun", "ypres", "passchendaele", "marne", "gallipoli",
     "dardanelles", "jutland", "arras", "cambrai", "vimy", "amiens",
     "messines", "belleau", "meuse-argonne", "caporetto", "tannenberg",
     "france", "belgium", "flanders", "picardy", "alsace", "lorraine",
     "serbia", "gallipoli peninsula", "mesopotamia", "palestine",
     "sinai", "egypt", "salonika", "cape helles", "anzac cove",
     "battalion", "brigade", "division", "regiment", "corps", "army",
     "artillery", "infantry", "cavalry", "australian", "british",
     "french", "german", "turkish", "anzac"}

excluded ==
    {"battle", "war", "fight", "attack", "front", "line", "trench",
     "soldier", "officer", "men", "man", "enemy", "troops", "forces",
     "the", "they", "we", "he", "she", "it", "when", "then", "after",
     "before", "during", "about", "with", "from", "into", "over",
     "wounded", "killed", "dead", "hospital", "ambulance", "casualty",
     "shell", "gun", "rifle", "bomb", "bullet", "fire", "shot"}

cause_words ==
    {"bombardment", "shelling", "artillery fire", "machine gun fire",
     "gas attack", "offensive", "assault", "raid", "advance",
     "counter-attack", "barrage", "explosion", "ambush", "charge",
     "opened fire", "attacked", "bombed", "torpedoed", "mined"}

effect_words ==
    {"casualties", "losses", "killed", "wounded", "injured", "died",
     "destroyed", "captured", "retreated", "surrendered", "evacuated",
     "hospitalized", "amputation", "shell shock", "blinded", "gassed",
     "reinforcements", "relief", "treatment", "operation"}

months ==
    {"january", "february", "march", "april", "may", "june", "july", "august",
     "september", "october", "november", "december"}

unit_words == {"battalion", "brigade", "division", "regiment"}

----------------------------------------------------------------------------
(* CauseEffectDetector: the text functions *)

\* tokenize: the runs of word characters of the lowercased text (every other
\* character is replaced by a space or is one) that are longer than 2
RECURSIVE split_words(_, _, _)
split_words(t, i, cur) ==
    IF i > Len(t) THEN (IF cur = "" THEN <<>> ELSE <<cur>>)
    ELSE IF IsWordChar(At(t, i)) THEN split_words(t, i + 1, cur \o At(t, i))
    ELSE (IF cur = "" THEN <<>> ELSE <<cur>>) \o split_words(t, i + 1, "")

tokenize(text) == SelectSeq(split_words(lower(text), 1, ""), LAMBDA w : Len(w) > 2)

\* a scan that lets a later list overrule an earlier one
last_direction(phrases, tl) ==
    LET hit(d) == \E n \in 1..Len(phrases[d]) : re_search(phrases[d][n], tl)
        ds == {n \in 1..Len(directions) : hit(directions[n])}
    IN  IF ds = {} THEN [found |-> FALSE, dir |-> ""]
        ELSE [found |-> TRUE,
              dir |-> directions[CHOOSE n \in ds : \A m \in ds : n >= m]]

\* the first pattern that matches, forward list first, names the direction
first_direction(phrases, tl) ==
    LET hit(d) == \E n \in 1..Len(phrases[d]) : re_search(phrases[d][n], tl)
        ds == {n \in 1..Len(directions) : hit(directions[n])}
    IN  IF ds = {} THEN [found |-> FALSE, dir |-> ""]
        ELSE [found |-> TRUE,
              dir |-> directions[CHOOSE n \in ds : \A m \in ds : n <= m]]

has_causal(text) == first_direction(causal_phrases, lower(text))

get_entities(text) ==
    LET tl == lower(text)
        events == {ev \in important_events : Contains(tl, ev)}
        dated == {m \in months :
                     re_search(<<B, Alt({m}), Sp(1), Cls("digit", 4, 4), B>>, tl)}
        years == re_findall(<<B, Cls("digit", 4, 4), B>>, tl)
        units == re_findall(<<B, Cls("digit", 1, -1),
                              Opt(<<Alt({"st", "nd", "rd", "th"})>>), Sp(1),
                              Alt(unit_words), B>>, tl)
        proper == {lower(m) : m \in re_findall(<<B, Cls("upper", 1, 1),
                                                  Cls("lower", 3, -1), B>>, text)}
        ents == events \cup dated \cup years \cup units
                  \cup {m \in proper : m \notin excluded}
    IN  {e \in ents : lower(e) \notin excluded}

count_indicators(text, words) ==
    LET tl == lower(text) IN Cardinality({w \in words : Contains(tl, w)})

----------------------------------------------------------------------------
(* HybridCauseEffect.__init__ and its text functions *)

H_causal_phrases ==
    [forward |-> <<
        <<B, Alt({"caused", "led to", "resulted in", "triggered", "sparked",
                  "brought about"}), B>>,
        <<B, Alt({"consequently", "therefore", "thus", "hence", "as a result"}), B>>,
        <<B, Alt({"in response to", "following", "after the", "due to the"}), B>>,
        <<B, Alt({"because"}), Sp(1), Opt(<<Alt({"of"}), Sp(1)>>),
          Alt({"the", "this", "their", "our", "his", "her"}), B>> >>,
     reverse |-> <<
        <<B, Alt({"because", "due to", "owing to", "on account of"}), B>>,
        <<B, Alt({"as a result of", "in consequence of"}), B>>,
        <<B, Alt({"was caused by", "resulted from"}), B>> >>]

H_important_events ==
    {"somme", "verdun", "ypres", "passchendaele", "marne", "gallipoli",
     "dardanelles", "jutland", "arras", "cambrai", "vimy", "amiens",
     "france", "belgium", "flanders", "picardy", "alsace", "lorraine",
     "serbia", "mesopotamia", "palestine", "sinai", "egypt",
     "battalion", "brigade", "division", "regiment", "corps", "army",
     "artillery", "infantry", "cavalry", "australian", "british",
     "french", "german", "turkish", "anzac"}

H_excluded ==
    {"battle", "war", "fight", "attack", "front", "line", "trench",
     "soldier", "officer", "men", "man", "enemy", "troops", "forces"}

H_cause_words ==
    {"bombardment", "shelling", "offensive", "assault",
     "raid", "advance", "barrage", "explosion", "attack"}

H_effect_words ==
    {"casualties", "losses", "killed", "wounded",
     "destroyed", "captured", "retreated", "surrendered"}

H_has_causal(text) == first_direction(H_causal_phrases, lower(text))

H_get_entities(text) ==
    LET tl == lower(text)
        events == {ev \in H_important_events : Contains(tl, ev)}
        proper == {lower(m) : m \in re_findall(<<B, Cls("upper", 1, 1),
                                                  Cls("lower", 3, -1), B>>, text)}
    IN  events \cup {m \in proper : m \notin H_excluded}

----------------------------------------------------------------------------
(* The inputs of the model *)

\* the sentences documents are made of
Pool ==
    <<"The bombardment at Ypres caused heavy casualties among the battalion.",
      "Because of the shelling at Ypres, the battalion suffered many delays.",
      "Our brigade began the advance near Ypres under heavy rain.",
      "Raid by battalion on Ypres failed.">>

Texts == {Pool[n] : n \in 1..Len(Pool)}

\* further sentences: one with a causal phrase, a cause word and an effect
\* word that differs from Pool[2] in its last word; a long one without causal
\* phrase and without indicator word; two about other entities, with a causal
\* phrase and without; two about Ypres and a battalion without indicator
\* word, one without causal phrase and one with a forward phrase
Extra ==
    <<"Because of the shelling at Ypres, the battalion suffered many wounded.",
      "Our brigade rested quietly near Ypres under heavy rain all day.",
      "The explosion at Arras caused great damage among the division.",
      "Our division rested quietly near Arras under heavy rain all day.",
      "Our battalion rested quietly near Ypres under heavy rain all day long.",
      "Ypres mud among other things caused delay for every battalion.">>

\* the texts the text functions are called with directly: one of 54 characters
\* without a word of more than two letters; a forward phrase in capitals
\* after a reverse phrase; a reverse phrase only; capitalized words, a word of
\* the stop-set, a date and a unit number; the same in small letters; a phrase
\* of both lists; the empty text; two texts of the same words, entities and
\* indicator words, one with a forward phrase and one with a reverse phrase;
\* one with a cause word, an effect word and no causal phrase
Probes ==
    <<"it is so, or is it so, as we do go up to it or so, no?",
      "Owing to fog the raid THEREFORE failed at dawn.",
      "Owing to fog at Arras the men stayed in camp.",
      "The Battle near Germany began in July 1916 for the 3rd Battalion.",
      "in july 1916 the 3rd battalion left france",
      "Because of the rain we halted.",
      "",
      "Many battalion losses at Ypres were due to the heavy shelling that day.",
      "Many of the battalion losses at Ypres were due to heavy shelling that day.",
      "The raid on Ypres left many wounded in the battalion lines.">>

ProbeTexts == {Probes[n] : n \in 1..Len(Probes)}

AllTexts == Texts \cup {Extra[n] : n \in 1..Len(Extra)} \cup ProbeTexts

\* file_id values, in the order documents take them
FileIds == <<"A", "B", "C", "D">>

\* min_conf values, in hundredths: negative, the default 0.85, above 1.0
Thresholds == {-5, 85, 110}

\* the probabilities the oracle can answer, in hundred-thousandths
OracleProbs == {12344, 100000}

MaxDocs == 2       \* documents in the list
MaxSentences == 3  \* sentences in all documents together

\* the text functions, tabulated over the texts of the model
TokenizeOf == [t \in AllTexts |-> tokenize(t)]
HasCausalOf == [t \in AllTexts |-> has_causal(t)]
EntitiesOf == [t \in AllTexts |-> get_entities(t)]
CauseCountOf == [t \in AllTexts |-> count_indicators(t, cause_words)]
EffectCountOf == [t \in AllTexts |-> count_indicators(t, effect_words)]
H_HasCausalOf == [t \in AllTexts |-> H_has_causal(t)]
H_EntitiesOf == [t \in AllTexts |-> H_get_entities(t)]
H_CauseCountOf == [t \in AllTexts |-> count_indicators(t, H_cause_words)]
H_EffectCountOf == [t \in AllTexts |-> count_indicators(t, H_effect_words)]

----------------------------------------------------------------------------
(* Term weights and similarity (the same code in both classes).  A weight  *)
(* is an integer in thousandths; math.log is the table of its rounded      *)
(* values and math.sqrt the integer square root.                           *)

\* LnTable[n][d] = round(1000 * ln(n / d))
LnTable ==
    <<<<0, -693, -1099, -1386, -1609, -1792, -1946, -2079, -2197>>,
      <<693, 0, -405, -693, -916, -1099, -1253, -1386, -1504>>,
      <<1099, 405, 0, -288, -511, -693, -847, -981, -1099>>,
      <<1386, 693, 288, 0, -223, -405, -560, -693, -811>>,
      <<1609, 916, 511, 223, 0, -182, -336, -470, -588>>,
      <<1792, 1099, 693, 405, 182, 0, -154, -288, -405>>,
      <<1946, 1253, 847, 560, 336, 154, 0, -134, -251>>,
      <<2079, 1386, 981, 693, 470, 288, 134, 0, -118>>>>

math_log(n, d) == LnTable[n][d]

RECURSIVE isqrt_between(_, _, _)
isqrt_between(x, lo, hi) ==
    IF lo >= hi THEN lo
    ELSE LET mid == (lo + hi + 1) \div 2
         IN  IF mid * mid <= x THEN isqrt_between(x, mid, hi)
             ELSE isqrt_between(x, lo, mid - 1)

math_sqrt(x) == isqrt_between(x, 0, Min(x, 46340))

RECURSIVE SumOf(_, _)
SumOf(f, S) ==
    IF S = {} THEN 0
    ELSE LET x == CHOOSE y \in S : TRUE IN f[x] + SumOf(f, S \ {x})

SeqToSet(s) == {s[n] : n \in 1..Len(s)}
Count(s, w) == Cardinality({n \in 1..Len(s) : s[n] = w})

\* the words of a list of sentences
words_of(sentences) ==
    UNION {SeqToSet(TokenizeOf[sentences[n]]) : n \in 1..Len(sentences)}

\* build_idf: the table after the call; entries of words that are not in
\* `docs` stay as they were
build_idf(old_idf, docs) ==
    LET ndocs == Len(docs)
        words == UNION {SeqToSet(TokenizeOf[docs[n]]) : n \in 1..Len(docs)}
        freq == [w \in words |->
                    Cardinality({n \in 1..Len(docs) : w \in SeqToSet(TokenizeOf[docs[n]])})]
    IN  [w \in (DOMAIN old_idf) \cup words |->
            IF w \in words THEN math_log(ndocs, 1 + freq[w]) ELSE old_idf[w]]

\* tfidf: word -> weight; the empty function for a text without words
tfidf(self_idf, text) ==
    LET words == TokenizeOf[text]
        tf == [w \in SeqToSet(words) |-> Count(words, w)]
        mx == CHOOSE m \in {tf[w] : w \in DOMAIN tf} :
                  \A w \in DOMAIN tf : tf[w] <= m
    IN  IF words = <<>> THEN <<>>
        ELSE [w \in DOMAIN tf |->
                 (tf[w] * (IF w \in DOMAIN self_idf THEN self_idf[w] ELSE 0)) \div mx]

\* dot / q in thousandths, rounded down; the digits are made one by one, as
\* dot * 1000 is too large a number
quotient(dot, q) ==
    LET r0 == dot % q
        r1 == (r0 * 10) % q
        r2 == (r1 * 10) % q
    IN  (dot \div q) * 1000 + ((r0 * 10) \div q) * 100 + ((r1 * 10) \div q) * 10
          + ((r2 * 10) \div q)

\* a cosine with a shortcut: two equal vectors have the similarity 1.0
cosine_same_is_one(v1, v2) ==
    IF DOMAIN v1 = DOMAIN v2 /\ (\A w \in DOMAIN v1 : v1[w] = v2[w]) THEN 1000
    ELSE IF DOMAIN v1 = {} \/ DOMAIN v2 = {} THEN 0
    ELSE LET common == (DOMAIN v1) \cap (DOMAIN v2)
             dot == SumOf([w \in common |-> v1[w] * v2[w]], common)
             m1 == math_sqrt(SumOf([w \in DOMAIN v1 |-> v1[w] * v1[w]], DOMAIN v1))
             m2 == math_sqrt(SumOf([w \in DOMAIN v2 |-> v2[w] * v2[w]], DOMAIN v2))
         IN  IF m1 > 0 /\ m2 > 0 THEN quotient(dot, m1 * m2) ELSE 0

\* cosine, in thousandths; the integer arithmetic is within 0.006 of the
\* floating-point value, and like it the same for (v1, v2) and (v2, v1)
cosine(v1, v2) ==
    IF DOMAIN v1 = {} \/ DOMAIN v2 = {} THEN 0
    ELSE LET common == (DOMAIN v1) \cap (DOMAIN v2)
             dot == SumOf([w \in common |-> v1[w] * v2[w]], common)
             m1 == math_sqrt(SumOf([w \in DOMAIN v1 |-> v1[w] * v1[w]], DOMAIN v1))
             m2 == math_sqrt(SumOf([w \in DOMAIN v2 |-> v2[w] * v2[w]], DOMAIN v2))
         IN  IF m1 > 0 /\ m2 > 0 THEN quotient(dot, m1 * m2) ELSE 0

----------------------------------------------------------------------------
(* CauseEffectDetector.validate.  self is [min_conf, idf]; the result is    *)
(* [valid, score, rejection, reasons]: rejection is <<>> when the          *)
(* explanation has no 'rejection' entry, and otherwise the reason with the *)
(* numbers its message shows.                                               *)

Rejected(reason) == [valid |-> FALSE, score |-> 0, rejection |-> reason, reasons |-> <<>>]

\* a bonus that does not look at the band: +0.20 for every similarity
similarity_bonus_flat(sim) == 20

\* the similarity bonus and its entry in details['reasons']
similarity_bonus(sim) ==
    IF 250 <= sim /\ sim <= 500 THEN 20
    ELSE IF 150 <= sim /\ sim < 250 THEN 10 ELSE 0

similarity_reason(sim) ==
    IF 250 <= sim /\ sim <= 500 THEN <<"Good semantic similarity">>
    ELSE IF 150 <= sim /\ sim < 250 THEN <<"Moderate semantic similarity">> ELSE <<>>

\* a return that forgets min(score, 1.0)
validate_return_uncapped(self, score, reasons) ==
    IF score >= self.min_conf
    THEN [valid |-> TRUE, score |-> score, rejection |-> <<>>, reasons |-> reasons]
    ELSE [valid |-> FALSE, score |-> score,
          rejection |-> <<"Score below", score, self.min_conf>>, reasons |-> reasons]

\* a return that accepts a score within 0.25 of min_conf only
validate_return_window(self, score, reasons) ==
    IF score >= self.min_conf /\ score < self.min_conf + 25
    THEN [valid |-> TRUE, score |-> Min(score, 100), rejection |-> <<>>,
          reasons |-> reasons]
    ELSE [valid |-> FALSE, score |-> Min(score, 100),
          rejection |-> <<"Score below", score, self.min_conf>>, reasons |-> reasons]

\* the last lines of validate: valid = score >= self.min_conf; return ...
\* a return that gives 0.0 for a score below the threshold
validate_return_zero_below(self, score, reasons) ==
    IF score >= self.min_conf
    THEN [valid |-> TRUE, score |-> Min(score, 100), rejection |-> <<>>,
          reasons |-> reasons]
    ELSE [valid |-> FALSE, score |-> 0,
          rejection |-> <<"Score below", score, self.min_conf>>, reasons |-> reasons]

validate_return(self, score, reasons) ==
    IF score >= self.min_conf
    THEN [valid |-> TRUE, score |-> Min(score, 100), rejection |-> <<>>,
          reasons |-> reasons]
    ELSE [valid |-> FALSE, score |-> Min(score, 100),
          rejection |-> <<"Score below", score, self.min_conf>>, reasons |-> reasons]

\* the score and the reasons of a pair that passed the gates
validate_score(c_has, e_has, sim, n_shared, c_ind, e_ind) ==
    (IF c_has THEN 30 ELSE 0) + (IF e_has THEN 25 ELSE 0)
      + similarity_bonus(sim) + Min(25, n_shared * 8)
      + (IF c_ind > 0 THEN 10 ELSE 0) + (IF e_ind > 0 THEN 10 ELSE 0)

validate_reasons(c_has, e_has, sim, c_ind, e_ind) ==
    (IF c_has THEN <<"Causal phrase in cause">> ELSE <<>>)
      \o (IF e_has THEN <<"Causal phrase in effect">> ELSE <<>>)
      \o similarity_reason(sim)
      \o <<"Shared entities">>
      \o (IF c_ind > 0 THEN <<"Cause has action indicators">> ELSE <<>>)
      \o (IF e_ind > 0 THEN <<"Effect has consequence indicators">> ELSE <<>>)

\* validate without the test of the two document ids
validate_steps_any_file(self, same_file, short, c_has, e_has, sim, n_shared, c_ind, e_ind) ==
    IF short THEN Rejected(<<"Too short">>)
    ELSE IF ~c_has /\ ~e_has THEN Rejected(<<"No causal language">>)
    ELSE IF sim < 150 THEN Rejected(<<"Low similarity", sim>>)
    ELSE IF sim > 650 THEN Rejected(<<"Too similar", sim>>)
    ELSE IF n_shared < 2 THEN Rejected(<<"Not enough shared entities", n_shared>>)
    ELSE validate_return(self, validate_score(c_has, e_has, sim, n_shared, c_ind, e_ind),
                         validate_reasons(c_has, e_has, sim, c_ind, e_ind))

\* validate with the similarity tests ahead of the causal-language test
validate_steps_similarity_first(self, same_file, short, c_has, e_has, sim, n_shared, c_ind, e_ind) ==
    IF same_file THEN Rejected(<<"Same file">>)
    ELSE IF short THEN Rejected(<<"Too short">>)
    ELSE IF sim < 150 THEN Rejected(<<"Low similarity", sim>>)
    ELSE IF sim > 650 THEN Rejected(<<"Too similar", sim>>)
    ELSE IF ~c_has /\ ~e_has THEN Rejected(<<"No causal language">>)
    ELSE IF n_shared < 2 THEN Rejected(<<"Not enough shared entities", n_shared>>)
    ELSE validate_return(self, validate_score(c_has, e_has, sim, n_shared, c_ind, e_ind),
                         validate_reasons(c_has, e_has, sim, c_ind, e_ind))

\* a validate that counts the shared entities before it looks for causal
\* language and at the similarity
validate_steps_entities_first(self, same_file, short, c_has, e_has, sim, n_shared, c_ind, e_ind) ==
    IF same_file THEN Rejected(<<"Same file">>)
    ELSE IF short THEN Rejected(<<"Too short">>)
    ELSE IF n_shared < 2 THEN Rejected(<<"Not enough shared entities", n_shared>>)
    ELSE IF ~c_has /\ ~e_has THEN Rejected(<<"No causal language">>)
    ELSE IF sim < 150 THEN Rejected(<<"Low similarity", sim>>)
    ELSE IF sim > 650 THEN Rejected(<<"Too similar", sim>>)
    ELSE validate_return(self, validate_score(c_has, e_has, sim, n_shared, c_ind, e_ind),
                         validate_reasons(c_has, e_has, sim, c_ind, e_ind))

\* a validate that looks for causal language in the cause text only
validate_steps_cause_phrase_only(self, same_file, short, c_has, e_has, sim, n_shared, c_ind, e_ind) ==
    IF same_file THEN Rejected(<<"Same file">>)
    ELSE IF short THEN Rejected(<<"Too short">>)
    ELSE IF ~c_has THEN Rejected(<<"No causal language">>)
    ELSE IF sim < 150 THEN Rejected(<<"Low similarity", sim>>)
    ELSE IF sim > 650 THEN Rejected(<<"Too similar", sim>>)
    ELSE IF n_shared < 2 THEN Rejected(<<"Not enough shared entities", n_shared>>)
    ELSE validate_return(self, validate_score(c_has, e_has, sim, n_shared, c_ind, e_ind),
                         validate_reasons(c_has, e_has, sim, c_ind, e_ind))

\* validate, given what it computes from the two texts: same_file and short
\* are the first two tests, c_has and e_has the answers of has_causal, sim the
\* cosine, n_shared the number of shared entities, c_ind and e_ind the counts
validate_steps(self, same_file, short, c_has, e_has, sim, n_shared, c_ind, e_ind) ==
    IF same_file THEN Rejected(<<"Same file">>)
    ELSE IF short THEN Rejected(<<"Too short">>)
    ELSE IF ~c_has /\ ~e_has THEN Rejected(<<"No causal language">>)
    ELSE IF sim < 150 THEN Rejected(<<"Low similarity", sim>>)
    ELSE IF sim > 650 THEN Rejected(<<"Too similar", sim>>)
    ELSE IF n_shared < 2 THEN Rejected(<<"Not enough shared entities", n_shared>>)
    ELSE validate_return(self, validate_score(c_has, e_has, sim, n_shared, c_ind, e_ind),
                         validate_reasons(c_has, e_has, sim, c_ind, e_ind))

\* a validate that takes a causal phrase of the cause text for causal language
\* only when its direction is forward
validate_forward_cause(self, cause_txt, effect_txt, cause_file, effect_file) ==
    validate_steps(self,
        cause_file = effect_file,
        Len(cause_txt) < 50 \/ Len(effect_txt) < 50,
        HasCausalOf[cause_txt].dir = "forward",
        HasCausalOf[effect_txt].found,
        cosine(tfidf(self.idf, cause_txt), tfidf(self.idf, effect_txt)),
        Cardinality(EntitiesOf[cause_txt] \cap EntitiesOf[effect_txt]),
        CauseCountOf[cause_txt],
        EffectCountOf[effect_txt])

validate(self, cause_txt, effect_txt, cause_file, effect_file) ==
    validate_steps(self,
        cause_file = effect_file,
        Len(cause_txt) < 50 \/ Len(effect_txt) < 50,
        HasCausalOf[cause_txt].found,
        HasCausalOf[effect_txt].found,
        cosine(tfidf(self.idf, cause_txt), tfidf(self.idf, effect_txt)),
        Cardinality(EntitiesOf[cause_txt] \cap EntitiesOf[effect_txt]),
        CauseCountOf[cause_txt],
        EffectCountOf[effect_txt])

(* HybridCauseEffect.rule_score: [score, reason, shared].  A gate returns    *)
(* score 0 with its reason string in place of the list of shared entities  *)
(* (reason is "" and shared the entities when no gate triggers).           *)
Gate(reason) == [score |-> 0, reason |-> reason, shared |-> {}]

rule_score_steps(same_file, short, c_has, e_has, sim, shared, c_ind, e_ind) ==
    IF same_file THEN Gate("same file")
    ELSE IF short THEN Gate("too short")
    ELSE IF ~c_has /\ ~e_has THEN Gate("no causal language")
    ELSE IF sim < 150 THEN Gate("too different")
    ELSE IF sim > 650 THEN Gate("too similar")
    ELSE IF Cardinality(shared) < 2 THEN Gate("no shared context")
    ELSE [score |-> 40 + (IF c_has THEN 20 ELSE 0) + (IF e_has THEN 15 ELSE 0)
                      + Min(15, Cardinality(shared) * 5)
                      + (IF c_ind > 0 THEN 5 ELSE 0) + (IF e_ind > 0 THEN 5 ELSE 0),
          reason |-> "", shared |-> shared]

rule_score(self, cause_txt, effect_txt, cause_file, effect_file) ==
    rule_score_steps(
        cause_file = effect_file,
        Len(cause_txt) < 50 \/ Len(effect_txt) < 50,
        H_HasCausalOf[cause_txt].found,
        H_HasCausalOf[effect_txt].found,
        cosine(tfidf(self.idf, cause_txt), tfidf(self.idf, effect_txt)),
        H_EntitiesOf[cause_txt] \cap H_EntitiesOf[effect_txt],
        H_CauseCountOf[cause_txt],
        H_EffectCountOf[effect_txt])

----------------------------------------------------------------------------
(* find_relationships (rule-based) *)

\* fd.get('sentences', []): a document without the key has no sentences
get_sentences(fd) == IF "sentences" \in DOMAIN fd THEN fd.sentences ELSE <<>>

\* the documents the indexing loop gets through: all of them, or those before
\* the first one without the key 'file_id', where fd['file_id'] raises KeyError
RECURSIVE indexable(_)
indexable(files) ==
    IF files = <<>> THEN <<>>
    ELSE IF "file_id" \notin DOMAIN Head(files) THEN <<>>
    ELSE <<Head(files)>> \o indexable(Tail(files))

raises_KeyError(files) == Len(indexable(files)) < Len(files)

\* every sentence of every document, in order: [file, line, text]
RECURSIVE sentence_entries(_, _)
sentence_entries(files, n) ==
    IF n > Len(files) THEN <<>>
    ELSE [k \in 1..Len(get_sentences(files[n])) |->
             [file |-> files[n].file_id, line |-> k - 1,
              text |-> get_sentences(files[n])[k]]]
         \o sentence_entries(files, n + 1)

\* sentences.extend(f.get('sentences', [])) for every document
RECURSIVE all_sentences(_)
all_sentences(files) ==
    IF files = <<>> THEN <<>>
    ELSE get_sentences(Head(files)) \o all_sentences(Tail(files))

\* the indexing pass: the candidates, in document order
index_entry(e) ==
    [file |-> e.file, line |-> e.line, text |-> e.text,
     entities |-> EntitiesOf[e.text],
     has_causal |-> HasCausalOf[e.text].found, dir |-> HasCausalOf[e.text].dir,
     c_cnt |-> CauseCountOf[e.text], e_cnt |-> EffectCountOf[e.text]]

\* an indexing pass without the test of the length
is_candidate_any_signal(e) ==
    HasCausalOf[e.text].found \/ CauseCountOf[e.text] > 0 \/ EffectCountOf[e.text] > 0

\* an indexing pass that takes every sentence of 50 characters or more
is_candidate_any_long(e) == ~(Len(e.text) < 50)

is_candidate(e) ==
    /\ ~(Len(e.text) < 50)
    /\ (HasCausalOf[e.text].found \/ CauseCountOf[e.text] > 0 \/ EffectCountOf[e.text] > 0)

indexed(files) ==
    LET es == SelectSeq(sentence_entries(indexable(files), 1), is_candidate)
    IN  [k \in 1..Len(es) |-> index_entry(es[k])]

is_cause(entry) == entry.c_cnt > entry.e_cnt \/ entry.dir = "forward"
is_effect(entry) == entry.e_cnt > entry.c_cnt \/ entry.dir = "reverse" \/ entry.has_causal

relationship(cause, effect, conf) ==
    [type |-> "cross_file",
     cause_file |-> cause.file, cause_text |-> cause.text,
     effect_file |-> effect.file, effect_text |-> effect.text,
     confidence |-> conf]

\* a tally that notes a reason without counting: rejections[reason] = 1
tally_flag(counts, reason) ==
    [r \in (DOMAIN counts) \cup {reason} |->
        IF r = reason THEN 1 ELSE counts[r]]

\* rejections[reason] += 1 on a defaultdict(int)
tally(counts, reason) ==
    [r \in (DOMAIN counts) \cup {reason} |->
        (IF r \in DOMAIN counts THEN counts[r] ELSE 0) + (IF r = reason THEN 1 ELSE 0)]

\* results.append(...) or rejections[...] += 1, for the answer v of validate
record_outcome(acc, cause, effect, v) ==
    IF v.valid
    THEN [acc EXCEPT !.results = Append(@, relationship(cause, effect, v.score))]
    ELSE [acc EXCEPT !.rejections =
                         tally(@, IF v.rejection = <<>> THEN <<"Unknown">> ELSE v.rejection)]

\* seen.add(key)
mark_seen(acc, key) == [acc EXCEPT !.seen = @ \cup {key}]

pair_key(cause, effect) == <<cause.file, cause.line, effect.file, effect.line>>

\* an inner loop that goes on to the next pair unless three entities are shared
match_pair_three_shared(self, cause, effect, acc) ==
    IF effect.file = cause.file THEN acc
    ELSE IF Cardinality(cause.entities \cap effect.entities) < 3 THEN acc
    ELSE IF pair_key(cause, effect) \in acc.seen THEN acc
    ELSE record_outcome(mark_seen(acc, pair_key(cause, effect)), cause, effect,
                        validate(self, cause.text, effect.text, cause.file, effect.file))

\* one turn of the inner loop: the pair cause, effect
match_pair(self, cause, effect, acc) ==
    IF effect.file = cause.file THEN acc
    ELSE IF cause.entities \cap effect.entities = {} THEN acc
    ELSE IF pair_key(cause, effect) \in acc.seen THEN acc
    ELSE record_outcome(mark_seen(acc, pair_key(cause, effect)), cause, effect,
                        validate(self, cause.text, effect.text, cause.file, effect.file))

\* the nested loops, cause by cause and effect by effect; n counts the pairs done
RECURSIVE match_loop(_, _, _, _, _)
match_loop(self, cause_list, effect_list, n, acc) ==
    IF n >= Len(cause_list) * Len(effect_list) THEN acc
    ELSE match_loop(self, cause_list, effect_list, n + 1,
                    match_pair(self, cause_list[(n \div Len(effect_list)) + 1],
                               effect_list[(n % Len(effect_list)) + 1], acc))

\* a matching pass whose set of keys is kept on the detector from call to call
matching_seen_kept(self, raised, cause_list, effect_list) ==
    IF raised THEN [results |-> <<>>, seen |-> seen, rejections |-> <<>>]
    ELSE match_loop(self, cause_list, effect_list, 0,
                    [results |-> <<>>, seen |-> seen, rejections |-> <<>>])

\* the matching pass, which a KeyError of the indexing pass never reaches
matching(self, raised, cause_list, effect_list) ==
    IF raised THEN [results |-> <<>>, seen |-> {}, rejections |-> <<>>]
    ELSE match_loop(self, cause_list, effect_list, 0,
                    [results |-> <<>>, seen |-> {}, rejections |-> <<>>])

\* what the call returns and leaves behind: the locals results, rejections,
\* seen, causes, effects, the entries made (pool), self.idf, and whether the
\* call ended in a KeyError
find_relationships(self, files) ==
    LET self1 == [self EXCEPT !.idf = build_idf(self.idf, all_sentences(files))]
        pool == indexed(files)
        done == matching(self1, raises_KeyError(files),
                         SelectSeq(pool, is_cause), SelectSeq(pool, is_effect))
    IN  [results |-> done.results, rejections |-> done.rejections,
         seen |-> done.seen, idf |-> self1.idf,
         causes |-> SelectSeq(pool, is_cause), effects |-> SelectSeq(pool, is_effect),
         pool |-> pool, raised |-> raises_KeyError(files)]

\* a sort without reverse=True: smallest key first
insert_asc(sorted, x, field) ==
    LET before == {n \in 1..Len(sorted) : sorted[n][field] <= x[field]}
        m == Cardinality(before)
    IN  SubSeq(sorted, 1, m) \o <<x>> \o SubSeq(sorted, m + 1, Len(sorted))

\* a sort that keeps one entry per key
insert_desc_unique(sorted, x, field) ==
    LET before == {n \in 1..Len(sorted) : sorted[n][field] >= x[field]}
        m == Cardinality(before)
    IN  IF \E n \in 1..Len(sorted) : sorted[n][field] = x[field] THEN sorted
        ELSE SubSeq(sorted, 1, m) \o <<x>> \o SubSeq(sorted, m + 1, Len(sorted))

\* list.sort(key=lambda x: x[field], reverse=True): stable, largest key first
insert_desc(sorted, x, field) ==
    LET before == {n \in 1..Len(sorted) : sorted[n][field] >= x[field]}
        m == Cardinality(before)
    IN  SubSeq(sorted, 1, m) \o <<x>> \o SubSeq(sorted, m + 1, Len(sorted))

RECURSIVE sort_desc(_, _)
sort_desc(list, field) ==
    IF list = <<>> THEN <<>>
    ELSE insert_desc(sort_desc(SubSeq(list, 1, Len(list) - 1), field), list[Len(list)], field)

----------------------------------------------------------------------------
(* find_pairs (hybrid) *)

H_is_candidate(e) ==
    /\ ~(Len(e.text) < 50)
    /\ (H_HasCausalOf[e.text].found \/ H_CauseCountOf[e.text] > 0
          \/ H_EffectCountOf[e.text] > 0)

candidates(files) ==
    LET es == SelectSeq(sentence_entries(indexable(files), 1), H_is_candidate)
    IN  [k \in 1..Len(es) |->
            [file |-> es[k].file, text |-> es[k].text, ents |-> H_EntitiesOf[es[k].text]]]

prefix(text, n) == SubSeq(text, 1, Min(n, Len(text)))

H_pair_key(c1, c2) == <<prefix(c1.text, 40), prefix(c2.text, 40)>>

\* if rule >= self.min_conf: results.append(...), for the answer r of rule_score
H_record_outcome(self, acc, c1, c2, r) ==
    IF r.score >= self.min_conf
    THEN [acc EXCEPT !.results = Append(@,
             [cause_file |-> c1.file, cause_text |-> c1.text,
              effect_file |-> c2.file, effect_text |-> c2.text,
              rule_score |-> r.score,      \* round(rule, 3) of a sum of hundredths
              shared_context |-> IF r.reason = "" THEN r.shared ELSE {}])]
    ELSE acc

H_match_pair(self, c1, c2, acc) ==
    IF c1.file = c2.file THEN acc
    ELSE IF c1.ents \cap c2.ents = {} THEN acc
    ELSE IF H_pair_key(c1, c2) \in acc.seen THEN acc
    ELSE H_record_outcome(self, mark_seen(acc, H_pair_key(c1, c2)), c1, c2,
                          rule_score(self, c1.text, c2.text, c1.file, c2.file))

RECURSIVE H_match_loop(_, _, _, _)
H_match_loop(self, cand_list, n, acc) ==
    IF n >= Len(cand_list) * Len(cand_list) THEN acc
    ELSE H_match_loop(self, cand_list, n + 1,
                      H_match_pair(self, cand_list[(n \div Len(cand_list)) + 1],
                                   cand_list[(n % Len(cand_list)) + 1], acc))

\* find_pairs up to "Rule-based: ... pairs passed": the locals results, seen,
\* candidates, self.idf, and whether the call ended in a KeyError
find_pairs_match(self, files) ==
    LET self1 == [self EXCEPT !.idf = build_idf(self.idf, all_sentences(files))]
        done == IF raises_KeyError(files) THEN [results |-> <<>>, seen |-> {}]
                ELSE H_match_loop(self1, candidates(files), 0,
                                  [results |-> <<>>, seen |-> {}])
    IN  [results |-> done.results, seen |-> done.seen, idf |-> self1.idf,
         candidates |-> candidates(files), raised |-> raises_KeyError(files)]

\* the text ml_score hands to the oracle
ml_prompt(cause, effect) == prefix(cause, 150) \o ". As a result, " \o prefix(effect, 120)

\* round(x, 4) of a probability given in hundred-thousandths, in ten-thousandths
round4(p) == (p + 5) \div 10

\* round((rule_score + ml_score) / 2, 4), in ten-thousandths: a sum that lies
\* halfway between two values goes to either, as its binary representation decides
round_half(rule, ml) ==
    LET s == rule * 100 + ml
    IN  IF s % 2 = 0 THEN {s \div 2} ELSE {s \div 2, (s \div 2) + 1}

----------------------------------------------------------------------------
(* The document lists of the model: up to MaxDocs documents, each with at  *)
(* least one sentence of Pool, MaxSentences sentences at most in all; the  *)
(* n-th new file_id is FileIds[n].                                         *)

sentence_lists(k) == {[n \in 1..k |-> f[n]] : f \in [1..k -> Texts]}

RECURSIVE doc_lists(_, _, _)
doc_lists(d, budget, used) ==
    IF d = 0 THEN {<<>>}
    ELSE UNION {
           UNION {
             UNION {
               {<<[file_id |-> FileIds[idn], sentences |-> s]>> \o rest :
                    rest \in doc_lists(d - 1, budget - k, Max(used, idn))} :
               s \in sentence_lists(k)} :
             idn \in 1..Min(used + 1, Len(FileIds))} :
           k \in 1..(budget - (d - 1))}

Corpora == UNION {doc_lists(d, MaxSentences, 0) : d \in 0..MaxDocs}

----------------------------------------------------------------------------
(* The programs.  A detector is made with a threshold; run loads the       *)
(* documents and calls find_relationships / find_pairs, and build_idf,     *)
(* validate and rule_score can also be called on the detector directly.    *)
(* pc is the position: "start" after construction, "found" / "scoring" /   *)
(* "ranked" inside run, "done" after it, "aborted" when an error left it;  *)
(* "idf_built" after a direct build_idf, "called" after a direct call.     *)

Self == [min_conf |-> min_conf, idf |-> idf]

\* the lists of sentences build_idf is called with directly
SentenceLists == UNION {sentence_lists(k) : k \in 0..MaxSentences}

\* the document ids direct calls are made with
CallFileIds == {FileIds[1], FileIds[2]}

Init ==
    /\ variant \in {"rulebased", "ml"}
    /\ min_conf \in Thresholds
    /\ all_files = <<>>
    /\ idf = <<>>
    /\ pc = "start"
    /\ results = <<>>
    /\ scored = 0
    /\ rejections = <<>>
    /\ oracle_log = <<>>
    /\ outfile = <<>>
    /\ calls = <<>>
    /\ causes = <<>>
    /\ effects = <<>>
    /\ cands = <<>>
    /\ seen = {}
    /\ vocabulary = {}
    /\ returned = <<>>
    /\ text_calls = <<>>

\* find_relationships has come to its end with r: the locals, self.idf and
\* what it returned; a KeyError returns nothing
Found(r, at) ==
    /\ results' = r.results
    /\ rejections' = r.rejections
    /\ idf' = r.idf
    /\ causes' = r.causes
    /\ effects' = r.effects
    /\ cands' = r.pool
    /\ seen' = r.seen
    /\ returned' = IF r.raised THEN returned ELSE Append(returned, r.results)
    /\ pc' = IF r.raised THEN "aborted" ELSE at

\* CauseEffectDetector.run: data = json.load(f);
\* results = self.find_relationships(data), for a document list of `inputs`;
\* a KeyError ends run
RunFindRelationshipsOn(inputs) ==
    /\ variant = "rulebased" /\ pc = "start"
    /\ \E files \in inputs :
         /\ all_files' = files
         /\ vocabulary' = words_of(all_sentences(files))
         /\ Found(find_relationships(Self, files), "found")
    /\ UNCHANGED <<variant, min_conf, text_calls, scored, oracle_log, outfile, calls>>

RunFindRelationships == RunFindRelationshipsOn(Corpora)

\* CauseEffectDetector.run: results.sort(...); json.dump(results, f)
RunSortAndSave ==
    /\ variant = "rulebased" /\ pc = "found"
    /\ results' = sort_desc(results, "confidence")
    /\ outfile' = <<results'>>
    /\ pc' = "done"
    /\ UNCHANGED <<variant, min_conf, text_calls, all_files, idf, scored, rejections, oracle_log, calls,
                   passes, vocabulary, returned>>

\* find_pairs has come to the end of its matching pass, or to a KeyError
Matched(r) ==
    /\ results' = r.results
    /\ idf' = r.idf
    /\ cands' = r.candidates
    /\ seen' = r.seen
    /\ pc' = IF r.raised THEN "aborted" ELSE "scoring"

\* HybridCauseEffect.run and find_pairs: load, build IDF, index, match, for a
\* document list of `inputs`; a KeyError ends find_pairs and run
FindPairsMatchOn(inputs) ==
    /\ variant = "ml" /\ pc = "start"
    /\ \E files \in inputs :
         /\ all_files' = files
         /\ vocabulary' = words_of(all_sentences(files))
         /\ Matched(find_pairs_match(Self, files))
    /\ scored' = 0
    /\ UNCHANGED <<variant, min_conf, text_calls, rejections, oracle_log, outfile, calls,
                   causes, effects, returned>>

FindPairsMatch == FindPairsMatchOn(Corpora)

\* one turn of the "add ML scores" loop in which self.nli answers p
FindPairsMlScore ==
    /\ variant = "ml" /\ pc = "scoring" /\ scored < Len(results)
    /\ \E p \in OracleProbs :
         LET r == results[scored + 1]
             ml == round4(p)
         IN  /\ oracle_log' = Append(oracle_log, ml_prompt(r.cause_text, r.effect_text))
             /\ \E combined \in round_half(r.rule_score, ml) :
                  results' = [results EXCEPT ![scored + 1] =
                                 [f \in (DOMAIN r) \cup {"ml_score", "combined_score"} |->
                                     IF f = "ml_score" THEN ml
                                     ELSE IF f = "combined_score" THEN combined
                                     ELSE r[f]]]
    /\ scored' = scored + 1
    /\ UNCHANGED <<variant, min_conf, text_calls, all_files, idf, pc, rejections, outfile, calls,
                   passes, vocabulary, returned>>

\* one turn of the loop in which self.nli raises: nothing catches the error,
\* it ends find_pairs and run
FindPairsOracleError ==
    /\ variant = "ml" /\ pc = "scoring" /\ scored < Len(results)
    /\ LET r == results[scored + 1]
       IN  oracle_log' = Append(oracle_log, ml_prompt(r.cause_text, r.effect_text))
    /\ pc' = "aborted"
    /\ UNCHANGED <<variant, min_conf, text_calls, all_files, idf, results, scored, rejections,
                   outfile, calls, passes, vocabulary, returned>>

\* the loop is over: results.sort(...); return results
FindPairsSort ==
    /\ variant = "ml" /\ pc = "scoring" /\ scored = Len(results)
    /\ results' = sort_desc(results, "combined_score")
    /\ pc' = "ranked"
    /\ UNCHANGED <<variant, min_conf, text_calls, all_files, idf, scored, rejections, oracle_log,
                   outfile, calls, passes, vocabulary, returned>>

\* HybridCauseEffect.run: json.dump(results, f)
RunSave ==
    /\ variant = "ml" /\ pc = "ranked"
    /\ outfile' = <<results>>
    /\ pc' = "done"
    /\ UNCHANGED <<variant, min_conf, text_calls, all_files, idf, results, scored, rejections,
                   oracle_log, calls, passes, vocabulary, returned>>

\* detector.build_idf(docs), called directly with a list of `lists`
BuildIdfOn(lists) ==
    /\ pc = "start"
    /\ \E sentences \in lists :
         /\ idf' = build_idf(idf, sentences)
         /\ vocabulary' = words_of(sentences)
    /\ pc' = "idf_built"
    /\ UNCHANGED <<variant, min_conf, text_calls, all_files, results, scored, rejections,
                   oracle_log, outfile, calls, passes, returned>>

BuildIdf == BuildIdfOn(SentenceLists)

\* detector.validate(cause_txt, effect_txt, cause_file, effect_file), called
\* directly with texts of `texts`, before or after build_idf
ValidateOn(texts) ==
    /\ variant = "rulebased" /\ pc \in {"start", "idf_built"}
    /\ \E cause_txt \in texts, effect_txt \in texts,
          cause_file \in CallFileIds, effect_file \in CallFileIds :
         calls' = Append(calls,
                     [cause_txt |-> cause_txt, effect_txt |-> effect_txt,
                      cause_file |-> cause_file, effect_file |-> effect_file,
                      ret |-> validate(Self, cause_txt, effect_txt, cause_file, effect_file)])
    /\ pc' = "called"
    /\ UNCHANGED <<variant, min_conf, text_calls, all_files, idf, results, scored, rejections,
                   oracle_log, outfile, passes, vocabulary, returned>>

Validate == ValidateOn(Texts)

\* detector.rule_score(cause_txt, effect_txt, cause_file, effect_file), called
\* directly with texts of `texts`, before or after build_idf
RuleScoreOn(texts) ==
    /\ variant = "ml" /\ pc \in {"start", "idf_built"}
    /\ \E cause_txt \in texts, effect_txt \in texts,
          cause_file \in CallFileIds, effect_file \in CallFileIds :
         calls' = Append(calls,
                     [cause_txt |-> cause_txt, effect_txt |-> effect_txt,
                      cause_file |-> cause_file, effect_file |-> effect_file,
                      ret |-> rule_score(Self, cause_txt, effect_txt, cause_file, effect_file)])
    /\ pc' = "called"
    /\ UNCHANGED <<variant, min_conf, text_calls, all_files, idf, results, scored, rejections,
                   oracle_log, outfile, passes, vocabulary, returned>>

RuleScore == RuleScoreOn(Texts)

Next ==
    \/ RunFindRelationships
    \/ RunSortAndSave
    \/ FindPairsMatch
    \/ FindPairsMlScore
    \/ FindPairsOracleError
    \/ FindPairsSort
    \/ RunSave
    \/ BuildIdf
    \/ Validate
    \/ RuleScore

Spec == Init /\ [][Next]_vars

----------------------------------------------------------------------------
(* The same programs on further inputs: documents whose file_id is the     *)
(* empty string, documents that lack a key, the sentences of Extra; the    *)
(* n-th document of a list has the file_id WideFileIds[n].  On these a     *)
(* detector also goes on after its first call: build_idf is called again   *)
(* ("idf_rebuilt"), and find_relationships is called again with the same   *)
(* list after run has ended ("found_again").                               *)

WideFileIds == <<"", "B", "C", "D">>

\* the sentences documents are made of, and those of the direct calls
WideTexts == {Pool[1], Pool[4], Extra[1], Extra[2]}
WideCallTexts == {Pool[1], Extra[1], Extra[2], Extra[3], Extra[4]}

wide_sentence_lists(k) == {[n \in 1..k |-> f[n]] : f \in [1..k -> WideTexts]}

\* the documents with the sentences s: the record, and for one sentence also
\* the record without the key 'sentences' and the one without 'file_id'
wide_docs(id, s) ==
    {[file_id |-> id, sentences |-> s]}
        \cup (IF Len(s) = 1 THEN {[file_id |-> id], [sentences |-> s]} ELSE {})

RECURSIVE wide_doc_lists(_, _, _)
wide_doc_lists(d, budget, n) ==
    IF d = 0 THEN {<<>>}
    ELSE UNION {
           UNION {
             {<<doc>> \o rest : doc \in wide_docs(WideFileIds[n], s),
                                rest \in wide_doc_lists(d - 1, budget - k, n + 1)} :
             s \in wide_sentence_lists(k)} :
           k \in 1..(budget - (d - 1))}

WideCorpora == UNION {wide_doc_lists(d, MaxSentences, 1) : d \in 0..MaxDocs}

WideSentenceLists == UNION {wide_sentence_lists(k) : k \in 0..MaxSentences}

RunFindRelationshipsWide == RunFindRelationshipsOn(WideCorpora)

FindPairsMatchWide == FindPairsMatchOn(WideCorpora)

BuildIdfWide == BuildIdfOn(WideSentenceLists)

ValidateWide == ValidateOn(WideCallTexts)

RuleScoreWide == RuleScoreOn(WideCallTexts)

\* detector.build_idf(docs) again, on the detector build_idf was called on,
\* with no sentence or with one
BuildIdfAgain ==
    /\ pc = "idf_built"
    /\ \E sentences \in wide_sentence_lists(0) \cup wide_sentence_lists(1) :
         /\ idf' = build_idf(idf, sentences)
         /\ vocabulary' = words_of(sentences)
    /\ pc' = "idf_rebuilt"
    /\ UNCHANGED <<variant, min_conf, text_calls, all_files, results, scored, rejections,
                   oracle_log, outfile, calls, passes, returned>>

\* detector.find_relationships(data) again, after run, on the same detector
\* and with the same list
FindRelationshipsAgain ==
    /\ variant = "rulebased" /\ pc = "done"
    /\ vocabulary' = words_of(all_sentences(all_files))
    /\ Found(find_relationships(Self, all_files), "found_again")
    /\ UNCHANGED <<variant, min_conf, text_calls, all_files, scored, oracle_log, outfile, calls>>

WideNext ==
    \/ RunFindRelationshipsWide
    \/ RunSortAndSave
    \/ FindRelationshipsAgain
    \/ FindPairsMatchWide
    \/ FindPairsMlScore
    \/ FindPairsOracleError
    \/ FindPairsSort
    \/ RunSave
    \/ BuildIdfWide
    \/ BuildIdfAgain
    \/ ValidateWide
    \/ RuleScoreWide

WideSpec == Init /\ [][WideNext]_vars

----------------------------------------------------------------------------
(* The text functions called directly on a detector, before or after a     *)
(* build_idf: has_causal, get_entities, tfidf and cosine, each with its     *)
(* answer recorded in text_calls.                                           *)

\* the lists build_idf is called with here: MaxDocs sentences at most
probe_sentence_lists(k) ==
    {[n \in 1..k |-> f[n]] : f \in [1..k -> {Probes[4], Probes[8], Pool[1]}]}

ProbeSentenceLists == UNION {probe_sentence_lists(k) : k \in 0..MaxDocs}

BuildIdfProbe == BuildIdfOn(ProbeSentenceLists)

\* term vectors that are no tfidf of a text of the model: the empty dict, two
\* with zero weights only, two with a weight that is not zero
ProbeVectors ==
    {<<>>,
     [w \in {"ypres"} |-> 0],
     [w \in {"ypres", "raid"} |-> 0],
     [w \in {"ypres"} |-> 405],
     [w \in {"ypres", "raid"} |-> IF w = "raid" THEN -288 ELSE 0]}

\* the vectors cosine is called with: those, and the tfidf of the probe texts
Vectors == ProbeVectors \cup {tfidf(idf, Probes[n]) : n \in 1..4}

TextCall(record) ==
    /\ pc \in {"start", "idf_built"}
    /\ text_calls' = Append(text_calls, record)
    /\ pc' = "called"
    /\ UNCHANGED <<variant, min_conf, all_files, idf, results, scored, rejections,
                   oracle_log, outfile, calls, passes, vocabulary, returned>>

\* detector.has_causal(text)
HasCausalCall ==
    \E text \in ProbeTexts :
        TextCall([fn |-> "has_causal", text |-> text,
                  ret |-> IF variant = "rulebased" THEN HasCausalOf[text]
                          ELSE H_HasCausalOf[text]])

\* detector.get_entities(text)
GetEntitiesCall ==
    \E text \in ProbeTexts :
        TextCall([fn |-> "get_entities", text |-> text,
                  ret |-> IF variant = "rulebased" THEN EntitiesOf[text]
                          ELSE H_EntitiesOf[text]])

\* detector.tfidf(text)
TfidfCall ==
    \E text \in ProbeTexts :
        TextCall([fn |-> "tfidf", text |-> text, ret |-> tfidf(idf, text)])

\* detector.cosine(v1, v2)
CosineCall ==
    \E v1 \in Vectors, v2 \in Vectors :
        TextCall([fn |-> "cosine", v1 |-> v1, v2 |-> v2, ret |-> cosine(v1, v2)])

\* detector.validate(...) on the two texts of the same words and four others,
\* two of them without indicator word, one of these without causal phrase
ValidateProbe ==
    ValidateOn({Probes[8], Probes[9], Pool[1], Pool[2], Extra[5], Extra[6]})

TextNext ==
    \/ BuildIdfProbe
    \/ ValidateProbe
    \/ HasCausalCall
    \/ GetEntitiesCall
    \/ TfidfCall
    \/ CosineCall

TextSpec == Init /\ [][TextNext]_vars

----------------------------------------------------------------------------
(* run on documents about different places and units: sentences about     *)
(* Ypres and a battalion, one about Arras and a division, and one with a    *)
(* cause word, an effect word and no causal phrase.                         *)

MixedTexts == {Pool[1], Extra[1], Extra[3], Probes[10]}

mixed_sentence_lists(k) == {[n \in 1..k |-> f[n]] : f \in [1..k -> MixedTexts]}

RECURSIVE mixed_doc_lists(_, _, _)
mixed_doc_lists(d, budget, used) ==
    IF d = 0 THEN {<<>>}
    ELSE UNION {
           UNION {
             UNION {
               {<<[file_id |-> FileIds[idn], sentences |-> s]>> \o rest :
                    rest \in mixed_doc_lists(d - 1, budget - k, Max(used, idn))} :
               s \in mixed_sentence_lists(k)} :
             idn \in 1..Min(used + 1, Len(FileIds))} :
           k \in 1..(budget - (d - 1))}

MixedCorpora == UNION {mixed_doc_lists(d, MaxSentences, 0) : d \in 0..MaxDocs}

RunFindRelationshipsMixed == RunFindRelationshipsOn(MixedCorpora)

MixedNext ==
    \/ RunFindRelationshipsMixed
    \/ RunSortAndSave

MixedSpec == Init /\ [][MixedNext]_vars

----------------------------------------------------------------------------
(* Properties.  A pair is the four arguments of validate / rule_score; the *)
(* predicates below state, from the texts and the detector's idf table,    *)
(* which gates a pair fails.                                                *)

IsRuleBased == variant = "rulebased"

HasCausalIn(text) ==
    IF IsRuleBased THEN HasCausalOf[text].found ELSE H_HasCausalOf[text].found

SharedEntities(p) ==
    IF IsRuleBased THEN EntitiesOf[p.cause_txt] \cap EntitiesOf[p.effect_txt]
    ELSE H_EntitiesOf[p.cause_txt] \cap H_EntitiesOf[p.effect_txt]

Similarity(p) == cosine(tfidf(idf, p.cause_txt), tfidf(idf, p.effect_txt))

FailsSameDocument(p) == p.cause_file = p.effect_file
FailsTooShort(p) == Len(p.cause_txt) < 50 \/ Len(p.effect_txt) < 50
FailsNoCausal(p) == ~HasCausalIn(p.cause_txt) /\ ~HasCausalIn(p.effect_txt)
FailsSimilarity(p) == Similarity(p) < 150 \/ Similarity(p) > 650
FailsSharedEntities(p) == Cardinality(SharedEntities(p)) < 2

PassesGates(p) ==
    /\ ~FailsSameDocument(p) /\ ~FailsTooShort(p) /\ ~FailsNoCausal(p)
    /\ ~FailsSimilarity(p) /\ ~FailsSharedEntities(p)

\* the pair a relationship record is about
PairOf(r) ==
    [cause_txt |-> r.cause_text, effect_txt |-> r.effect_text,
     cause_file |-> r.cause_file, effect_file |-> r.effect_file]

\* the reason a direct call reported: "" when it reported none
Reported(c) ==
    IF IsRuleBased
    THEN (IF c.ret.rejection = <<>> THEN "" ELSE c.ret.rejection[1])
    ELSE c.ret.reason

\* a detector like this one, newly made with threshold t
Fresh(t) == [min_conf |-> t, idf |-> <<>>]

(* C1: no relationship in the list of find_relationships or find_pairs has *)
(* cause_file equal to effect_file, and validate called on a pair with     *)
(* equal document ids answers valid = False with the reason 'Same file',   *)
(* whatever the two texts are.                                              *)
C1_NoSameDocument ==
    /\ \A n \in 1..Len(results) : results[n].cause_file # results[n].effect_file
    /\ \A n \in 1..Len(calls) :
          (IsRuleBased /\ calls[n].cause_file = calls[n].effect_file)
             => (calls[n].ret.valid = FALSE /\ calls[n].ret.rejection = <<"Same file">>)

\* validate was called with equal ids on a pair it accepts with distinct ids
C1_Witness ==
    /\ IsRuleBased /\ Len(calls) = 1
    /\ calls[1].cause_file = calls[1].effect_file
    /\ calls[1].ret.rejection = <<"Same file">>
    /\ validate(Self, calls[1].cause_txt, calls[1].effect_txt, FileIds[1], FileIds[2]).valid

(* C2: for every pair that fails no gate, the score validate returns is    *)
(* min(1.00, 0.30 [cause text has a causal phrase] + 0.25 [effect text has *)
(* one] + band + min(0.25, 0.08 n) + 0.10 [cause text has a cause word]    *)
(* + 0.10 [effect text has an effect word]), n the number of shared        *)
(* entities, band 0.20 for a similarity in [0.25, 0.50], 0.10 in           *)
(* [0.15, 0.25) and 0 in (0.50, 0.65].  Scores are in hundredths.          *)
C2_Score(p) ==
    LET sim == Similarity(p)
        n == Cardinality(SharedEntities(p))
        band == IF 250 <= sim /\ sim <= 500 THEN 20
                ELSE IF 150 <= sim /\ sim < 250 THEN 10 ELSE 0
    IN  Min(100, (IF HasCausalOf[p.cause_txt].found THEN 30 ELSE 0)
                 + (IF HasCausalOf[p.effect_txt].found THEN 25 ELSE 0)
                 + band + Min(25, 8 * n)
                 + (IF CauseCountOf[p.cause_txt] > 0 THEN 10 ELSE 0)
                 + (IF EffectCountOf[p.effect_txt] > 0 THEN 10 ELSE 0))

C2_AdditiveScore ==
    \A n \in 1..Len(calls) :
        (IsRuleBased /\ PassesGates(calls[n])) => calls[n].ret.score = C2_Score(calls[n])

\* validate scored a pair whose similarity is above 0.50, below the cap
C2_Witness ==
    /\ IsRuleBased /\ Len(calls) = 1 /\ PassesGates(calls[1])
    /\ Similarity(calls[1]) > 500
    /\ calls[1].ret.score = 81

(* C3: for every min_conf, values above 1.0 included, and every pair that  *)
(* fails no gate, validate answers valid = True exactly when the score it  *)
(* returns (capped at 1.0) is >= min_conf; so every record of the output   *)
(* has confidence >= min_conf.                                              *)
C3_ValidIffReturnedScoreReaches ==
    /\ \A n \in 1..Len(calls) :
          (IsRuleBased /\ PassesGates(calls[n]))
             => (calls[n].ret.valid <=> calls[n].ret.score >= min_conf)
    /\ IsRuleBased => \A n \in 1..Len(results) : results[n].confidence >= min_conf

(* C4: validate and rule_score test their gates in the order same          *)
(* document, too short, no causal language, similarity out of band, too    *)
(* few shared entities, and the reason reported is that of the first gate  *)
(* in this order the pair fails, also when it fails several.               *)
C4_FirstFailedGateReported ==
    \A n \in 1..Len(calls) :
        LET c == calls[n]
            r == Reported(c)
        IN  /\ FailsSameDocument(c)
                 => r = (IF IsRuleBased THEN "Same file" ELSE "same file")
            /\ (~FailsSameDocument(c) /\ FailsTooShort(c))
                 => r = (IF IsRuleBased THEN "Too short" ELSE "too short")
            /\ (~FailsSameDocument(c) /\ ~FailsTooShort(c) /\ FailsNoCausal(c))
                 => r = (IF IsRuleBased THEN "No causal language" ELSE "no causal language")
            /\ (~FailsSameDocument(c) /\ ~FailsTooShort(c) /\ ~FailsNoCausal(c)
                  /\ FailsSimilarity(c))
                 => r \in (IF IsRuleBased THEN {"Low similarity", "Too similar"}
                           ELSE {"too different", "too similar"})
            /\ (~FailsSameDocument(c) /\ ~FailsTooShort(c) /\ ~FailsNoCausal(c)
                  /\ ~FailsSimilarity(c) /\ FailsSharedEntities(c))
                 => r = (IF IsRuleBased THEN "Not enough shared entities"
                         ELSE "no shared context")
            /\ PassesGates(c) => r \in {"", "Score below"}

\* validate was called on a pair of long texts from two documents that has no
\* causal language and a similarity out of band, and named the earlier gate
C4_Witness ==
    /\ IsRuleBased /\ Len(calls) = 1
    /\ ~FailsSameDocument(calls[1]) /\ ~FailsTooShort(calls[1])
    /\ FailsNoCausal(calls[1]) /\ FailsSimilarity(calls[1])
    /\ calls[1].ret.rejection = <<"No causal language">>


(* C5: for a fixed document list and thresholds t1 < t2, the pairs         *)
(* find_relationships returns with min_conf = t2 are among those it        *)
(* returns with min_conf = t1, and so are the pairs that pass the rule     *)
(* score in find_pairs.                                                     *)
Pairs(list) == {PairOf(list[n]) : n \in 1..Len(list)}

C5_ThresholdMonotone ==
    /\ (IsRuleBased /\ pc = "found")
          => \A t \in Thresholds :
                t > min_conf
                   => Pairs(find_relationships(Fresh(t), all_files).results)
                         \subseteq Pairs(results)
    /\ (~IsRuleBased /\ pc = "scoring" /\ scored = 0)
          => \A t \in Thresholds :
                t > min_conf
                   => Pairs(find_pairs_match(Fresh(t), all_files).results)
                         \subseteq Pairs(results)

\* find_relationships returned two pairs, and returns one of them only with a
\* higher threshold
C5_Witness ==
    /\ IsRuleBased /\ pc = "found" /\ Len(results) = 2
    /\ \E t \in Thresholds :
          /\ t > min_conf
          /\ Len(find_relationships(Fresh(t), all_files).results) = 1

(* C6: a pair that fails a gate (no causal language on either side, a      *)
(* similarity outside [0.15, 0.65], fewer than 2 shared entities) is never *)
(* in the list of find_relationships or of find_pairs, for every min_conf, *)
(* 0 and negative values included.                                          *)
C6_GatedPairNeverReturned ==
    \A n \in 1..Len(results) :
        /\ ~FailsNoCausal(PairOf(results[n]))
        /\ ~FailsSimilarity(PairOf(results[n]))
        /\ ~FailsSharedEntities(PairOf(results[n]))

(* C7: when the oracle call for a relationship raises an error, find_pairs *)
(* does not abort: the scoring loop goes on and the list is returned.      *)
C7_OracleErrorDoesNotAbort == pc # "aborted"

(* C8: every relationship of either variant has its rule score             *)
(* (confidence / rule_score) in [0, 1]; in the hybrid variant, ml_score is *)
(* in [0, 1] when the oracle answers a probability in [0, 1], and          *)
(* combined_score is (rule_score + ml_score) / 2 up to the rounding to     *)
(* four decimals, so in [0, 1] too.  rule scores are in hundredths,        *)
(* ml_score and combined_score in ten-thousandths.                          *)
C8_ScoreBounds ==
    \A n \in 1..Len(results) :
        LET r == results[n]
        IN  /\ IsRuleBased => (0 <= r.confidence /\ r.confidence <= 100)
            /\ ~IsRuleBased => (0 <= r.rule_score /\ r.rule_score <= 100)
            /\ "ml_score" \in DOMAIN r
                  => /\ 0 <= r.ml_score /\ r.ml_score <= 10000
                     /\ 0 <= r.combined_score /\ r.combined_score <= 10000
                     /\ 2 * r.combined_score - (100 * r.rule_score + r.ml_score) \in {-1, 0, 1}

\* a relationship with rule_score 0.95 got ml_score 1.0
C8_Witness ==
    /\ ~IsRuleBased
    /\ \E n \in 1..Len(results) :
          /\ "ml_score" \in DOMAIN results[n]
          /\ results[n].rule_score = 95
          /\ results[n].ml_score = 10000
          /\ results[n].combined_score = 9750

(* C9: the list run writes in the rule-based variant is non-increasing in  *)
(* confidence and the list find_pairs returns is non-increasing in         *)
(* combined_score; when the sort has been done, every relationship of the  *)
(* list has its final score.                                                *)
NonIncreasing(list, field) ==
    \A n \in 1..(Len(list) - 1) : list[n][field] >= list[n + 1][field]

C9_SortedOutput ==
    /\ (IsRuleBased /\ pc = "done") => NonIncreasing(outfile[1], "confidence")
    /\ (~IsRuleBased /\ pc \in {"ranked", "done"})
          => /\ scored = Len(results)
             /\ \A n \in 1..Len(results) : "combined_score" \in DOMAIN results[n]
             /\ NonIncreasing(results, "combined_score")
    /\ (~IsRuleBased /\ pc = "done") => outfile[1] = results

\* run wrote two relationships, the second one found first
C9_Witness ==
    /\ IsRuleBased /\ pc = "done" /\ Len(outfile[1]) = 2
    /\ outfile[1][1].confidence > outfile[1][2].confidence
    /\ find_relationships(Fresh(min_conf), all_files).results
          = <<outfile[1][2], outfile[1][1]>>

(* C10: find_pairs calls the oracle once for each relationship that passed *)
(* the rule score, in their order, and for nothing else; the scoring and   *)
(* sorting pass adds no relationship, removes none and changes no          *)
(* rule_score: the list returned is a permutation of the list of those     *)
(* that passed.                                                             *)
RuleFields(r) == [f \in (DOMAIN r) \ {"ml_score", "combined_score"} |-> r[f]]

RuleList(list) == [n \in 1..Len(list) |-> RuleFields(list[n])]

Prompts(list) == [n \in 1..Len(list) |-> ml_prompt(list[n].cause_text, list[n].effect_text)]

SamePermutation(s, t) ==
    /\ Len(s) = Len(t)
    /\ \A x \in SeqToSet(s) \cup SeqToSet(t) : Count(s, x) = Count(t, x)

C10_OracleOncePerAccepted ==
    /\ [](~IsRuleBased /\ pc = "scoring"
            => /\ Len(oracle_log) = scored
               /\ oracle_log = SubSeq(Prompts(results), 1, scored))
    /\ [](~IsRuleBased /\ pc \in {"ranked", "done"}
            => SamePermutation(oracle_log, Prompts(results)))
    /\ [][(~IsRuleBased /\ pc = "scoring" /\ pc' # "aborted")
            => SamePermutation(RuleList(results'), RuleList(results))]_vars

\* find_pairs returned two relationships in the reverse of the order in which
\* the oracle was called for them
C10_Witness ==
    /\ ~IsRuleBased /\ pc = "ranked" /\ Len(results) = 2
    /\ oracle_log = <<Prompts(results)[2], Prompts(results)[1]>>
    /\ Prompts(results)[1] # Prompts(results)[2]


----------------------------------------------------------------------------
(* Matching: keys and directions *)

\* the key of the same two sentences with cause and effect exchanged
ReverseKey(key) == <<key[3], key[4], key[1], key[2]>>

\* r is the relationship of the sentences of q, with cause and effect exchanged
IsReverse(r, q) ==
    /\ r.cause_file = q.effect_file /\ r.cause_text = q.effect_text
    /\ r.effect_file = q.cause_file /\ r.effect_text = q.cause_text

\* C11: in a find_relationships run validate is called at most once for an
\* unordered pair of sentences of different documents: never with s1 as cause
\* and s2 as effect and also with s2 as cause and s1 as effect; the list that
\* is returned never holds a relationship together with its reverse.
C11_UnorderedPairValidatedOnce ==
    (IsRuleBased /\ pc \in {"found", "done"}) =>
        /\ \A key \in seen : ReverseKey(key) \notin seen
        /\ \A m, n \in 1..Len(results) : ~IsReverse(results[m], results[n])


----------------------------------------------------------------------------
(* Indexing *)

InList(entry, list) == \E n \in 1..Len(list) : list[n] = entry

\* C12: in the indexing pass of find_relationships a candidate is put in the
\* cause-leaning list iff its cause-indicator count is above its
\* effect-indicator count or its causal direction is forward, and in the
\* effect-leaning list iff its effect-indicator count is above its
\* cause-indicator count or its causal direction is reverse; nothing else puts
\* a sentence in the effect-leaning list.
C12_SymmetricLeaningRule ==
    (IsRuleBased /\ pc \in {"found", "done"}) =>
        \A n \in 1..Len(cands) :
            LET entry == cands[n]
            IN  /\ InList(entry, causes)
                     <=> (entry.c_cnt > entry.e_cnt \/ entry.dir = "forward")
                /\ InList(entry, effects)
                     <=> (entry.e_cnt > entry.c_cnt \/ entry.dir = "reverse")


\* a causal phrase or an indicator word, as the class of the variant finds them
HasSignal(text) ==
    IF IsRuleBased
    THEN HasCausalOf[text].found \/ CauseCountOf[text] > 0 \/ EffectCountOf[text] > 0
    ELSE H_HasCausalOf[text].found \/ H_CauseCountOf[text] > 0 \/ H_EffectCountOf[text] > 0

Qualifies(e) == Len(e.text) >= 50 /\ HasSignal(e.text)

\* the indexing pass has gone through every document of all_files
Indexed == pc \notin {"start", "idf_built", "idf_rebuilt", "called"}
               /\ ~raises_KeyError(all_files)

\* C13: a sentence of a document enters the candidate pool iff it has at least
\* 50 characters and a causal phrase or a cause-indicator count > 0 or an
\* effect-indicator count > 0, in the indexing pass of find_relationships and
\* in that of find_pairs: the pool is the list of these sentences, each once,
\* in document order.
C13_CandidateIffLongAndSignal ==
    Indexed =>
        LET want == SelectSeq(sentence_entries(all_files, 1), Qualifies)
        IN  /\ Len(cands) = Len(want)
            /\ \A n \in 1..Len(want) :
                   cands[n].file = want[n].file /\ cands[n].text = want[n].text

\* a list with a candidate, a short sentence and a long one without causal
\* phrase or indicator word has been indexed by find_pairs
C13_Witness ==
    /\ Indexed /\ ~IsRuleBased
    /\ SeqToSet(all_sentences(all_files)) = {Pool[1], Pool[4], Extra[2]}
    /\ Len(cands) = 1 /\ cands[1].text = Pool[1]


----------------------------------------------------------------------------
(* Scenarios of validate *)

\* a direct call on two texts of 50 characters or more from two documents
\* whose entity sets share no entity
NoSharedEntity(c) ==
    ~FailsSameDocument(c) /\ ~FailsTooShort(c) /\ SharedEntities(c) = {}

\* C14, as it is stated: for two texts of at least 50 characters from
\* different documents whose entity sets share no entity, validate answers
\* accepted = false with the insufficient-shared-entities reason, whether or
\* not a text has causal language.
C14_NoSharedEntityReason ==
    IsRuleBased =>
        \A n \in 1..Len(calls) :
            NoSharedEntity(calls[n]) =>
                /\ ~calls[n].ret.valid
                /\ Reported(calls[n]) = "Not enough shared entities"

\* C14, amended: for such a pair validate answers accepted = false with score
\* 0; the reason is the one of the first gate the pair fails: no causal
\* language when neither text has a causal phrase, else the similarity when it
\* is outside [0.15, 0.65], and insufficient shared entities (with the count 0)
\* only for a pair that has causal language and a similarity inside the band.
C14_NoSharedEntityRejected ==
    IsRuleBased =>
        \A n \in 1..Len(calls) :
            NoSharedEntity(calls[n]) =>
                /\ ~calls[n].ret.valid
                /\ calls[n].ret.score = 0
                /\ calls[n].ret.rejection =
                       (IF FailsNoCausal(calls[n]) THEN <<"No causal language">>
                        ELSE IF Similarity(calls[n]) < 150
                             THEN <<"Low similarity", Similarity(calls[n])>>
                        ELSE IF Similarity(calls[n]) > 650
                             THEN <<"Too similar", Similarity(calls[n])>>
                        ELSE <<"Not enough shared entities", 0>>)

\* validate was called on such a pair that has causal language and a
\* similarity inside the band, and named the shared entities
C14_Witness ==
    /\ IsRuleBased /\ Len(calls) = 1
    /\ NoSharedEntity(calls[1])
    /\ ~FailsNoCausal(calls[1]) /\ ~FailsSimilarity(calls[1])
    /\ calls[1].ret.rejection = <<"Not enough shared entities", 0>>


\* C15: with the default threshold 0.85, validate on the cause Pool[1] of
\* document A and the effect Extra[1] of document B answers accepted = true
\* with a score >= 0.85: the similarity gate does not reject the pair.
C15_ScenarioAccepted ==
    (IsRuleBased /\ min_conf = 85) =>
        \A n \in 1..Len(calls) :
            (/\ calls[n].cause_txt = Pool[1] /\ calls[n].effect_txt = Extra[1]
             /\ calls[n].cause_file = "A" /\ calls[n].effect_file = "B")
                => calls[n].ret.valid /\ calls[n].ret.score >= 85


----------------------------------------------------------------------------
(* The term-weight table *)

\* C16: after build_idf(corpus), whatever build_idf calls were made on the
\* detector before, the table holds entries only for the words of the corpus
\* it was last built from, and a word that is in no sentence of that corpus
\* has the weight 0 in every vector tfidf makes.
C16_TableOfLastCorpus ==
    /\ DOMAIN idf \subseteq vocabulary
    /\ \A text \in AllTexts :
           \A w \in DOMAIN tfidf(idf, text) :
               w \notin vocabulary => tfidf(idf, text)[w] = 0


----------------------------------------------------------------------------
(* Repeated calls *)

\* C17: for a fixed document list and threshold two runs of
\* find_relationships return the same list: the same accepted (cause, effect)
\* pairs with the same scores in the same order.
C17_SameListReturnedAgain ==
    (IsRuleBased /\ Len(returned) = 2) => returned[2] = returned[1]

\* find_relationships has returned twice, and what it returned first holds two
\* relationships or more
C17_Witness ==
    /\ IsRuleBased /\ pc = "found_again"
    /\ Len(returned) = 2 /\ Len(returned[1]) >= 2


----------------------------------------------------------------------------
(* The records of the output *)

NonEmptyFields(r) ==
    /\ {"cause_file", "effect_file", "cause_text", "effect_text"} \subseteq DOMAIN r
    /\ r.cause_file # "" /\ r.effect_file # ""
    /\ r.cause_text # "" /\ r.effect_text # ""

\* C18: every relationship record in the list of find_relationships and of
\* find_pairs has the fields cause_file, effect_file, cause_text and
\* effect_text, none of them empty, for every document list, those with a
\* document whose file_id is the empty string included.
C18_FieldsNonEmpty ==
    /\ \A n \in 1..Len(results) : NonEmptyFields(results[n])
    /\ \A k \in 1..Len(outfile) : \A n \in 1..Len(outfile[k]) : NonEmptyFields(outfile[k][n])


----------------------------------------------------------------------------
(* Malformed records *)

Malformed(fd) == "file_id" \notin DOMAIN fd \/ "sentences" \notin DOMAIN fd

\* C19: when a record of the input array lacks file_id or lacks sentences the
\* run fails as a whole and writes no output; the record is never skipped
\* silently or taken for a document without sentences.
C19_MalformedFailsRun ==
    (\E n \in 1..Len(all_files) : Malformed(all_files[n])) =>
        pc = "aborted" /\ outfile = <<>>


----------------------------------------------------------------------------
(* The tally of rejections *)

\* the messages of the six reasons (the similarity has one for each side of
\* the band); a key of the tally is a message with the numbers it shows
ReasonMessages ==
    {"Same file", "Too short", "No causal language", "Low similarity", "Too similar",
     "Not enough shared entities", "Score below"}

\* C20: at the end of find_relationships the number of accepted relationships
\* plus the sum of the counts of the tally is the number of distinct pair keys
\* that were validated, and every rejection is counted under one of the six
\* reasons, never under 'Unknown'.
C20_TallyAccountsForEveryKey ==
    (IsRuleBased /\ pc \in {"found", "done"}) =>
        /\ Len(results) + SumOf(rejections, DOMAIN rejections) = Cardinality(seen)
        /\ \A key \in DOMAIN rejections :
               key[1] \in ReasonMessages /\ rejections[key] >= 1

\* find_relationships has accepted a pair and rejected two for one reason and
\* one for another
C20_Witness ==
    /\ IsRuleBased /\ pc = "found"
    /\ Len(results) >= 1
    /\ Cardinality(DOMAIN rejections) >= 2
    /\ \E key \in DOMAIN rejections : rejections[key] >= 2

----------------------------------------------------------------------------
(* The text functions *)

\* a vector without a weight that is not zero: its magnitude is 0
ZeroMagnitude(v) == \A w \in DOMAIN v : v[w] = 0

\* C21: cosine(v1, v2) answers 0.0 whenever v1 or v2 is empty or has the
\* magnitude zero; tfidf answers the empty vector for a text whose token list
\* is empty, so the similarity of such a text with any text is 0.0.
C21_CosineZeroOnEmpty ==
    \A n \in 1..Len(text_calls) :
        LET c == text_calls[n]
        IN  /\ (c.fn = "cosine" /\ (ZeroMagnitude(c.v1) \/ ZeroMagnitude(c.v2)))
                  => c.ret = 0
            /\ (c.fn = "tfidf" /\ TokenizeOf[c.text] = <<>>)
                  => /\ DOMAIN c.ret = {}
                     /\ \A other \in ProbeTexts : cosine(c.ret, tfidf(idf, other)) = 0

\* cosine was called with the vector of a text, whose weights are not all
\* zero, and a vector of two zero weights
C21_Witness ==
    /\ Len(text_calls) = 1 /\ text_calls[1].fn = "cosine"
    /\ text_calls[1].v1 = tfidf(idf, Probes[2]) /\ ~ZeroMagnitude(text_calls[1].v1)
    /\ Cardinality(DOMAIN text_calls[1].v2) = 2 /\ ZeroMagnitude(text_calls[1].v2)
    /\ text_calls[1].ret = 0


\* some pattern of the list d of `phrases` matches the text, letter case ignored
MatchesIn(phrases, d, text) ==
    \E n \in 1..Len(phrases[d]) : re_search(phrases[d][n], lower(text))

\* tabulated over the texts of the direct calls, for the lists of each class
MatchesOf ==
    [t \in ProbeTexts |-> [d \in {"forward", "reverse"} |-> MatchesIn(causal_phrases, d, t)]]

H_MatchesOf ==
    [t \in ProbeTexts |-> [d \in {"forward", "reverse"} |-> MatchesIn(H_causal_phrases, d, t)]]

MatchesList(d, text) == IF IsRuleBased THEN MatchesOf[text][d] ELSE H_MatchesOf[text][d]

\* C22: has_causal reports forward for a text that matches a forward pattern,
\* also when it matches a reverse pattern too or matches it earlier in the
\* text; reverse for a text that matches reverse patterns only; not found for
\* a text that matches none; capital letters in the text make no difference.
C22_ForwardListFirst ==
    \A n \in 1..Len(text_calls) :
        LET c == text_calls[n]
        IN  c.fn = "has_causal" =>
              /\ MatchesList("forward", c.text)
                    => (c.ret.found /\ c.ret.dir = "forward")
              /\ (~MatchesList("forward", c.text) /\ MatchesList("reverse", c.text))
                    => (c.ret.found /\ c.ret.dir = "reverse")
              /\ (~MatchesList("forward", c.text) /\ ~MatchesList("reverse", c.text))
                    => ~c.ret.found

\* has_causal was called on a text with a reverse phrase followed by a forward
\* phrase in capitals, and answered forward
C22_Witness ==
    /\ Len(text_calls) = 1 /\ text_calls[1].fn = "has_causal"
    /\ text_calls[1].text = Probes[2]
    /\ MatchesList("reverse", Probes[2])
    /\ ~re_search(causal_phrases.forward[2], Probes[2])
    /\ text_calls[1].ret.found /\ text_calls[1].ret.dir = "forward"


----------------------------------------------------------------------------
(* validate and the two sides of a pair *)

\* what the claim lets two pairs agree on: the document ids, the lengths as
\* validate tests them, the presence of a causal phrase on each side, the
\* similarity, the shared entities and the indicator matches
Features(p) ==
    <<p.cause_file, p.effect_file, Len(p.cause_txt) < 50, Len(p.effect_txt) < 50,
      HasCausalOf[p.cause_txt].found, HasCausalOf[p.effect_txt].found,
      Similarity(p), SharedEntities(p),
      CauseCountOf[p.cause_txt], EffectCountOf[p.effect_txt]>>

Directions(p) == <<HasCausalOf[p.cause_txt].dir, HasCausalOf[p.effect_txt].dir>>

\* accepted flag, score and rejection reason
Outcome(ret) == <<ret.valid, ret.score, ret.rejection>>

\* the pairs of the texts of these calls with the document ids of the call c
PairsLike(c) ==
    {[cause_txt |-> a, effect_txt |-> b,
      cause_file |-> c.cause_file, effect_file |-> c.effect_file] :
         a \in {Probes[8], Probes[9], Pool[1], Pool[2]},
         b \in {Probes[8], Probes[9], Pool[1], Pool[2]}}

\* C23: two pairs that agree on document ids, lengths, presence of a causal
\* phrase on each side, similarity, shared entities and indicator matches get
\* the same accepted flag, score and rejection reason from validate, whatever
\* directions has_causal reports for their texts.
C23_DirectionIgnored ==
    IsRuleBased =>
        \A n \in 1..Len(calls) :
            \A q \in PairsLike(calls[n]) :
                Features(q) = Features(calls[n])
                    => Outcome(validate(Self, q.cause_txt, q.effect_txt,
                                        q.cause_file, q.effect_file))
                          = Outcome(calls[n].ret)

\* validate accepted a pair whose cause text has a forward phrase, and the
\* pair with the text of the same words and a reverse phrase in its place
\* agrees with it on everything but the direction
C23_Witness ==
    /\ IsRuleBased /\ Len(calls) = 1
    /\ calls[1].cause_txt = Probes[8] /\ calls[1].effect_txt = Pool[1]
    /\ calls[1].ret.valid
    /\ LET q == [cause_txt |-> Probes[9], effect_txt |-> Pool[1],
                 cause_file |-> calls[1].cause_file, effect_file |-> calls[1].effect_file]
       IN  Features(q) = Features(calls[1]) /\ Directions(q) # Directions(calls[1])


\* the capitalized words of a text: one capital letter and 3 small letters or
\* more, in small letters
CapitalizedWords(text) ==
    {lower(m) : m \in re_findall(<<B, Cls("upper", 1, 1), Cls("lower", 3, -1), B>>, text)}

\* C24: every element of the set get_entities returns is a gazetteer term that
\* occurs in the lowercased text, or the lowercase form of a capitalized word
\* of the text that is not in the stop-set; nothing else is returned, in
\* either class.
C24_OnlyGazetteerOrCapitalized ==
    \A n \in 1..Len(text_calls) :
        LET c == text_calls[n]
            gazetteer == IF IsRuleBased THEN important_events ELSE H_important_events
            stop_set == IF IsRuleBased THEN excluded ELSE H_excluded
        IN  c.fn = "get_entities" =>
              \A e \in c.ret :
                  \/ e \in gazetteer /\ Contains(lower(c.text), e)
                  \/ e \in CapitalizedWords(c.text) /\ e \notin stop_set


----------------------------------------------------------------------------
(* The keys of find_pairs *)

\* the pairs of candidates find_pairs does not skip for their documents or
\* their entities, by their places in the list of candidates
EligiblePairs ==
    {p \in (1..Len(cands)) \X (1..Len(cands)) :
        /\ cands[p[1]].file # cands[p[2]].file
        /\ cands[p[1]].ents \cap cands[p[2]].ents # {}}

\* C25: in find_pairs two candidate pairs that differ in the document of the
\* cause side or of the effect side never have the same deduplication key, so
\* each of them is scored: each that reaches min_conf is in the list of those
\* that passed.
C25_KeyHoldsDocumentIds ==
    (~IsRuleBased /\ pc = "scoring" /\ scored = 0) =>
        /\ \A p, q \in EligiblePairs :
               (cands[p[1]].file # cands[q[1]].file \/ cands[p[2]].file # cands[q[2]].file)
                   => H_pair_key(cands[p[1]], cands[p[2]])
                         # H_pair_key(cands[q[1]], cands[q[2]])
        /\ \A p \in EligiblePairs :
               rule_score(Self, cands[p[1]].text, cands[p[2]].text,
                          cands[p[1]].file, cands[p[2]].file).score >= min_conf
                   => \E n \in 1..Len(results) :
                          /\ results[n].cause_file = cands[p[1]].file
                          /\ results[n].cause_text = cands[p[1]].text
                          /\ results[n].effect_file = cands[p[2]].file
                          /\ results[n].effect_text = cands[p[2]].text


\* the answer of a gate: valid = False with a reason other than the score
GateRejects(ret) == ret.rejection # <<>> /\ ret.rejection[1] # "Score below"

\* validate on the pair of the call c with its two sides exchanged
Exchanged(c) == validate(Self, c.effect_txt, c.cause_txt, c.effect_file, c.cause_file)

\* C26: validate(a, b, da, db) is rejected by a gate iff validate(b, a, db, da)
\* is rejected by the same gate, with the same message; only the score of a
\* pair no gate rejects, and with it the acceptance, can differ between the
\* two directions.
C26_GatesSymmetric ==
    IsRuleBased =>
        \A n \in 1..Len(calls) :
            /\ GateRejects(calls[n].ret) <=> GateRejects(Exchanged(calls[n]))
            /\ GateRejects(calls[n].ret)
                  => /\ Exchanged(calls[n]).rejection = calls[n].ret.rejection
                     /\ Exchanged(calls[n]).score = 0 /\ calls[n].ret.score = 0

\* validate accepted a pair that no gate rejects with the sides exchanged
\* either, and that it does not accept then, for its score
C26_Witness ==
    /\ IsRuleBased /\ Len(calls) = 1
    /\ calls[1].ret.valid
    /\ ~Exchanged(calls[1]).valid /\ ~GateRejects(Exchanged(calls[1]))


\* the inner loop without its two tests before the key: every pair of a new
\* key goes to validate
match_pair_unfiltered(self, cause, effect, acc) ==
    IF pair_key(cause, effect) \in acc.seen THEN acc
    ELSE record_outcome(mark_seen(acc, pair_key(cause, effect)), cause, effect,
                        validate(self, cause.text, effect.text, cause.file, effect.file))

RECURSIVE match_loop_unfiltered(_, _, _, _, _)
match_loop_unfiltered(self, cause_list, effect_list, n, acc) ==
    IF n >= Len(cause_list) * Len(effect_list) THEN acc
    ELSE match_loop_unfiltered(self, cause_list, effect_list, n + 1,
             match_pair_unfiltered(self, cause_list[(n \div Len(effect_list)) + 1],
                                   effect_list[(n % Len(effect_list)) + 1], acc))

\* the pair is passed over by one of the two tests before the key
PassedOver(cause, effect) ==
    effect.file = cause.file \/ cause.entities \cap effect.entities = {}

DistinctFileIds(files) ==
    \A m, n \in 1..Len(files) : m # n => files[m].file_id # files[n].file_id

C28_CandidateInSomeList ==
    (IsRuleBased /\ pc = "found") =>
        \A n \in 1..Len(cands) : InList(cands[n], causes) \/ InList(cands[n], effects)


\* the entries of the two lists with the document id and the line of one half
\* of a key
EntriesAt(file, line) ==
    {e \in SeqToSet(causes) \cup SeqToSet(effects) : e.file = file /\ e.line = line}

GateMessagesOfMatching ==
    {"No causal language", "Low similarity", "Too similar",
     "Not enough shared entities", "Score below"}

\* C29: when find_relationships has returned, every key of a pair that went
\* to validate has two different file ids and stands for entries whose texts
\* have 50 characters or more, and the rejection tally has no 'Same file' and
\* no 'Too short': its reasons are no causal language, a similarity out of
\* bounds, too few shared entities and a score below the threshold.
C29_NoSameFileNoShortInTally ==
    (IsRuleBased /\ pc = "found") =>
        /\ \A key \in seen :
               /\ key[1] # key[3]
               /\ \A e \in EntriesAt(key[1], key[2]) \cup EntriesAt(key[3], key[4]) :
                      Len(e.text) >= 50
        /\ \A key \in DOMAIN rejections : key[1] \in GateMessagesOfMatching

\* a run over documents with a sentence of less than 50 characters that has
\* an indicator word, in which a cause and an effect of one document met and a
\* pair of two documents was validated and rejected
C29_Witness ==
    /\ IsRuleBased /\ pc = "found"
    /\ \E n \in 1..Len(all_files) :
           \E k \in 1..Len(all_files[n].sentences) :
               LET t == all_files[n].sentences[k]
               IN  Len(t) < 50 /\ CauseCountOf[t] + EffectCountOf[t] > 0
    /\ \E n \in 1..Len(causes), m \in 1..Len(effects) : causes[n].file = effects[m].file
    /\ seen # {} /\ rejections # <<>>


\* C30: for every call of validate, the answer has a rejection exactly when
\* it is not accepted; a pair that fails a gate (same document, too short, no
\* causal language, similarity out of bounds, fewer than two shared entities)
\* is not accepted and gets the score 0.0; a pair that fails no gate gets the
\* capped sum of its score parts, which is 0.41 or more, also when it is not
\* accepted, and then the rejection is the one of the threshold.
C30_RejectionAndScoreOfEveryCall ==
    IsRuleBased =>
        \A n \in 1..Len(calls) :
            LET c == calls[n]
            IN  /\ (c.ret.rejection # <<>>) <=> ~c.ret.valid
                /\ ~PassesGates(c) => (~c.ret.valid /\ c.ret.score = 0)
                /\ PassesGates(c)
                      => /\ c.ret.score = C2_Score(c) /\ c.ret.score >= 41
                         /\ ~c.ret.valid => c.ret.rejection[1] = "Score below"

\* validate gave a pair that fails no gate the score 0.41 and did not accept it
C30_Witness ==
    /\ IsRuleBased /\ Len(calls) = 1
    /\ PassesGates(calls[1])
    /\ ~calls[1].ret.valid /\ calls[1].ret.score = 41
    /\ calls[1].ret.rejection = <<"Score below", 41, 85>>

====
